---- MODULE Spec2Model ----
(***************************************************************************)
(* Model of service-checker/index.js (the Datastore-backed checker, lines  *)
(* 101-357): the three probes with their retry/backoff loops, the          *)
(* failure/recovery pass of sendEmails, the two mail sends, the write-back *)
(* of updateServices and the checkServices handler that sequences them.    *)
(*                                                                         *)
(* Abstractions.  A Date is the number of the run that took it (0: never   *)
(* set).  endpoint and port only parameterise the network calls, whose     *)
(* results are the nondeterministic attempt outcomes, and are left out.    *)
(* The registry holds one entity per id and every entity has its own       *)
(* display name (NameOf), so a name in a mail list identifies one service. *)
(* Runs do not overlap: checkServices is invoked again only after the      *)
(* previous invocation has responded or has been rejected.  Entities are   *)
(* edited out of band (action, enabled) between two runs only.  Time is    *)
(* kept for a stalled HTTP request alone: the instant, counted from the    *)
(* start of the attempt, at which one of its two timers aborts it.         *)
(***************************************************************************)
EXTENDS Integers, Sequences, FiniteSets, TLC

\* ---------------------------------------------------------------- bounds
NumServices == 2
MaxRuns == 3
MaxEdits == 1

\* ------------------------------------------------------ program constants
RETRY_COUNT == 3
RETRY_BACKOFF_MS == 2000
TIMEOUT_MS == 5000
\* the timeout option of axios.get in getEndpoint
AXIOS_TIMEOUT_MS == 3000

Ids == 1 .. NumServices
NameOf(id) == id + 100

KnownActions == {"GET", "PING", "SOCKET"}
Actions == KnownActions \cup {"UNKNOWN"}

\* service.failed is absent from a loaded entity, then "true"/"false"
Undefined == "undefined"
JsBool(b) == IF b THEN "true" ELSE "false"
Truthy(v) == v = "true"

VARIABLES
    registry,           \* Datastore kind ServiceCheckerService: id -> entity
    services,           \* the snapshot checkServices holds in memory
    pc,                 \* where checkServices is suspended
    probe,              \* id -> state of that service's probe task: where it
                        \* is suspended, its loop variable i, and the history
                        \* of its attempts (count, verdicts) and backoff waits
    failedServices,     \* sendEmails: names pushed in the alert branch
    recoveredServices,  \* sendEmails: names pushed in the recovery branch
    alertMail,          \* state of sendAlertEmail(failedServices)
    recoverMail,        \* state of sendRecoverEmail(recoveredServices)
    saved,              \* entities handed to datastore.save, <<>> before
    response,           \* status sent on res, 0 while none was sent
    run,                \* number of the current invocation (its clock)
    loaded,             \* history: the snapshot as getServices returned it
    entry,              \* history: the snapshot as sendEmails received it
    calls,              \* history: per-run counts of load/save/send calls
    lastListing,        \* history: id -> last list the service was put in
    prevVerdict,        \* history: id -> failed flag of the previous pass
    chained,            \* history: no datastore.save has rejected so far
    edits,              \* number of out-of-band edits of the registry so far
    sendFailed,         \* history: id -> "no", or the alert mail naming the
                        \* service was not sent and the run's snapshot was
                        \* then "saved" or not ("unsaved")
    lostSave,           \* history: id -> number of alert mails sent for the
                        \* service in runs whose save rejected, since the
                        \* last resolved save and its last healthy verdict
    autoDisabled,       \* history: ids a run disabled and saved as disabled,
                        \* not enabled out of band since
    attemptIn,          \* SpecAttempt: the outcome of one axios.get
    attemptOut          \* SpecAttempt: service.failed after that loop body

vars == <<registry, services, pc, probe, failedServices, recoveredServices,
          alertMail, recoverMail, saved, response, run, loaded, entry, calls,
          lastListing, prevVerdict, chained, edits, sendFailed, lostSave,
          autoDisabled, attemptIn, attemptOut>>

pureVars == <<attemptIn, attemptOut>>

\* -------------------------------------------------------------- entities
\* a freshly registered entity (README, Service Schema)
NewEntity(id, action, enabled) ==
    [name |-> NameOf(id), action |-> action, enabled |-> enabled,
     triggered |-> FALSE, alertCount |-> 0,
     lastAlertDate |-> 0, lastSuccessDate |-> 0]

\* the object the Datastore client returns for an entity: no failed property
InMemory(e) ==
    [name |-> e.name, action |-> e.action, enabled |-> e.enabled,
     triggered |-> e.triggered, alertCount |-> e.alertCount,
     lastAlertDate |-> e.lastAlertDate, lastSuccessDate |-> e.lastSuccessDate,
     failed |-> Undefined]

\* getServices: the whole kind, one object per entity
getServices(reg) == [id \in Ids |-> InMemory(reg[id])]

\* data: service -- the object itself is the entity data, so it carries a
\* failed property unless that was deleted
EntityData(s) ==
    IF s.failed = Undefined
    THEN [name |-> s.name, action |-> s.action, enabled |-> s.enabled,
          triggered |-> s.triggered, alertCount |-> s.alertCount,
          lastAlertDate |-> s.lastAlertDate, lastSuccessDate |-> s.lastSuccessDate]
    ELSE s

\* variant: the delete left out
deleteFailedNoop(svcs) == svcs

\* updateServices, the loop: delete service.failed on every object
deleteFailed(svcs) == [id \in Ids |-> [svcs[id] EXCEPT !.failed = Undefined]]

\* updateServices, the entities array: one {key, data} per service
updateServicesEntities(svcs) ==
    [i \in 1 .. NumServices |-> [key |-> i, data |-> EntityData(svcs[i])]]

\* variant: the save leaves the enabled property of the stored entity
datastoreSaveKeepsEnabled(reg, entities) ==
    [id \in Ids |->
        IF \E i \in DOMAIN entities : entities[i].key = id
        THEN [(CHOOSE e \in {entities[i] : i \in DOMAIN entities} : e.key = id).data
                EXCEPT !.enabled = reg[id].enabled]
        ELSE reg[id]]

\* datastore.save(entities) applied to the kind
datastoreSave(reg, entities) ==
    [id \in Ids |->
        IF \E i \in DOMAIN entities : entities[i].key = id
        THEN (CHOOSE e \in {entities[i] : i \in DOMAIN entities} : e.key = id).data
        ELSE reg[id]]

\* ------------------------------------------------------- probe attempts
HttpStatuses == {200, 204, 301, 404, 499, 500, 503}

\* variant: no CancelToken timer; a stall axios does not time out never ends
AbortTimeNoCancel(axiosFires) == IF axiosFires THEN AXIOS_TIMEOUT_MS ELSE 0

\* a request that never completes is aborted by the first of its two timers:
\* the timeout option of axios.get, when it covers the stall, and
\* source.cancel() at TIMEOUT_MS
AbortTime(axiosFires) ==
    IF axiosFires /\ AXIOS_TIMEOUT_MS < TIMEOUT_MS THEN AXIOS_TIMEOUT_MS ELSE TIMEOUT_MS

\* what one axios.get can end with: a response, an error without response,
\* or a stall ended by an abort (no response either)
HttpResponse(st) == [response |-> TRUE, status |-> st, hung |-> FALSE, abortedAt |-> 0]
NoResponse == [response |-> FALSE, status |-> 0, hung |-> FALSE, abortedAt |-> 0]
Stalled(axiosFires) ==
    [response |-> FALSE, status |-> 0, hung |-> TRUE, abortedAt |-> AbortTime(axiosFires)]
GetOutcomes ==
    {HttpResponse(st) : st \in HttpStatuses}
    \cup {NoResponse}
    \cup {Stalled(f) : f \in BOOLEAN}
PingOutcomes == {"alive", "not_alive", "throw"}
SocketOutcomes == {"connect", "timeout", "error"}

Outcomes(action) ==
    CASE action = "GET" -> GetOutcomes
      [] action = "PING" -> PingOutcomes
      [] action = "SOCKET" -> SocketOutcomes

\* does the awaited call of the attempt throw (axios rejects every status
\* outside 2xx; ping.promise.probe may reject; the socket promise rejects)
Raises(action, o) ==
    CASE action = "GET" -> ~(o.response /\ o.status >= 200 /\ o.status < 300)
      [] action = "PING" -> o = "throw"
      [] action = "SOCKET" -> o \in {"timeout", "error"}

\* variant: ping.promise.probe awaited outside the try block
CaughtExceptPing(action, o) == action # "PING"

\* the awaited call sits inside the try block of its loop body
Caught(action, o) == TRUE

\* variant: the test of the older checker (status > 500)
getEndpointAttemptOld(o) ==
    IF ~Raises("GET", o)
    THEN FALSE
    ELSE IF (o.response /\ o.status > 500) \/ ~o.response THEN TRUE ELSE FALSE

\* getEndpoint, one loop body: the value left in service.failed
getEndpointAttempt(o) ==
    IF ~Raises("GET", o)
    THEN FALSE
    ELSE IF o.response /\ o.status < 500 THEN FALSE ELSE TRUE

\* pingEndpoint, one loop body
pingEndpointAttempt(o) ==
    IF ~Raises("PING", o) THEN ~(o = "alive") ELSE TRUE

\* socketEndpoint, one loop body
socketEndpointAttempt(o) ==
    IF ~Raises("SOCKET", o) THEN FALSE ELSE TRUE

AttemptFailed(action, o) ==
    CASE action = "GET" -> getEndpointAttempt(o)
      [] action = "PING" -> pingEndpointAttempt(o)
      [] action = "SOCKET" -> socketEndpointAttempt(o)

\* if (!service.failed) break;
BreakLoop(failed) == ~failed

\* variant: the same delay before every retry
BackoffDelayConstant(i) == RETRY_BACKOFF_MS

\* setTimeout(resolve, i * RETRY_BACKOFF_MS)
BackoffDelay(i) == i * RETRY_BACKOFF_MS

\* for (let i = 1; i <= RETRY_COUNT; i++)
LoopContinues(i) == i <= RETRY_COUNT

IdleProbe ==
    [pc |-> "idle", i |-> 0, attempts |-> 0, verdicts |-> <<>>, waits |-> <<>>,
     hung |-> FALSE, abortedAt |-> 0]
\* a probe function called: service.failed = false, first loop body entered
StartedProbe ==
    [pc |-> "attempt", i |-> 1, attempts |-> 0, verdicts |-> <<>>, waits |-> <<>>,
     hung |-> FALSE, abortedAt |-> 0]

\* the stall of the attempt just made and the instant of its abort
Hung(action, o) == action = "GET" /\ o.hung
AbortedAt(action, o) == IF action = "GET" THEN o.abortedAt ELSE 0

\* --------------------------------------------------------- checkServices
\* the switch on service.action inside the dispatch loop
Dispatches(service) == service.enabled /\ service.action \in KnownActions

\* variant: no default arm in the switch
dispatchLoopNoDefault(svcs) ==
    [id \in Ids |->
        IF ~svcs[id].enabled THEN svcs[id]
        ELSE IF svcs[id].action \in KnownActions
             THEN [svcs[id] EXCEPT !.failed = JsBool(FALSE)]
             ELSE svcs[id]]

\* the dispatch loop over the snapshot (lines 332-350)
dispatchLoop(svcs) ==
    [id \in Ids |->
        IF ~svcs[id].enabled THEN svcs[id]
        ELSE IF svcs[id].action \in KnownActions
             THEN [svcs[id] EXCEPT !.failed = JsBool(FALSE)]
             ELSE [svcs[id] EXCEPT !.enabled = FALSE]]

\* ------------------------------------------------------------ sendEmails
\* variant: the alert branch taken on every failed verdict
BranchNoDedup(service) ==
    IF ~service.enabled THEN "skip"
    ELSE IF Truthy(service.failed) THEN "alert"
    ELSE "success"

\* variant: a plain else in place of else if (!service.failed)
BranchElseSuccess(service) ==
    IF ~service.enabled THEN "skip"
    ELSE IF Truthy(service.failed) /\ ~service.triggered THEN "alert"
    ELSE "success"

\* variant: the enabled test left out
BranchNoSkip(service) ==
    IF Truthy(service.failed) /\ ~service.triggered THEN "alert"
    ELSE IF ~Truthy(service.failed) THEN "success"
    ELSE "none"

\* the branch taken for one service
Branch(service) ==
    IF ~service.enabled THEN "skip"
    ELSE IF Truthy(service.failed) /\ ~service.triggered THEN "alert"
    ELSE IF ~Truthy(service.failed) THEN "success"
    ELSE "none"

\* variant: triggered not set with the alert
alertBranchNoTrigger(service, now) ==
    [service EXCEPT !.lastAlertDate = now, !.alertCount = service.alertCount + 1]

\* variant: the counter left alone
alertBranchNoCount(service, now) ==
    [service EXCEPT !.lastAlertDate = now, !.triggered = TRUE]

\* variant: the counter assigned, not incremented
alertBranchAssignsOne(service, now) ==
    [service EXCEPT !.lastAlertDate = now, !.triggered = TRUE, !.alertCount = 1]

\* lines 265-267
alertBranch(service, now) ==
    [service EXCEPT !.lastAlertDate = now, !.triggered = TRUE,
                    !.alertCount = service.alertCount + 1]

\* variant: triggered not cleared on recovery
successBranchKeepsTriggered(service, now) ==
    [service EXCEPT !.lastSuccessDate = now]

\* lines 270-274
successBranch(service, now) ==
    [service EXCEPT !.lastSuccessDate = now, !.triggered = FALSE]

\* one iteration of the for loop, on the accumulated state
sendEmailsStep(st, id, now) ==
    LET service == st.services[id]
        b == Branch(service)
    IN  CASE b = "alert" ->
                [services |-> [st.services EXCEPT ![id] = alertBranch(service, now)],
                 failedServices |-> Append(st.failedServices, service.name),
                 recoveredServices |-> st.recoveredServices]
          [] b = "success" ->
                [services |-> [st.services EXCEPT ![id] = successBranch(service, now)],
                 failedServices |-> st.failedServices,
                 recoveredServices |->
                    IF service.triggered
                    THEN Append(st.recoveredServices, service.name)
                    ELSE st.recoveredServices]
          [] OTHER -> st

RECURSIVE sendEmailsLoop(_, _, _)
sendEmailsLoop(st, id, now) ==
    IF id > NumServices THEN st
    ELSE sendEmailsLoop(sendEmailsStep(st, id, now), id + 1, now)

sendEmailsPass(svcs, now) ==
    sendEmailsLoop([services |-> svcs, failedServices |-> <<>>,
                    recoveredServices |-> <<>>], 1, now)

\* sendAlertEmail / sendRecoverEmail up to their await
MailStart(serviceNames) == IF Len(serviceNames) = 0 THEN "skipped" ELSE "inflight"
\* a rejected transporter.sendMail is caught and logged inside the function
MailSettled(ok) == IF ok THEN "sent" ELSE "error"
\* variant: the sends not awaited
MailReturnedOrPending(m) == m \in {"skipped", "sent", "error", "inflight"}

\* await Promise.all([sendAlertEmail(..), sendRecoverEmail(..)])
MailReturned(m) == m \in {"skipped", "sent", "error"}

NoCalls == [load |-> 0, save |-> 0, alertSend |-> 0, recoverSend |-> 0]
InList(name, list) == \E i \in 1 .. Len(list) : list[i] = name

\* ------------------------------------------------------------------ Init
Init ==
    /\ registry \in [Ids -> {NewEntity(id, a, en) :
                                id \in Ids, a \in Actions, en \in BOOLEAN}]
    /\ \A id \in Ids : registry[id].name = NameOf(id)
    /\ services = getServices(registry)
    /\ pc = "idle"
    /\ probe = [id \in Ids |-> IdleProbe]
    /\ failedServices = <<>>
    /\ recoveredServices = <<>>
    /\ alertMail = "none"
    /\ recoverMail = "none"
    /\ saved = <<>>
    /\ response = 0
    /\ run = 0
    /\ loaded = getServices(registry)
    /\ entry = getServices(registry)
    /\ calls = NoCalls
    /\ lastListing = [id \in Ids |-> "none"]
    /\ prevVerdict = [id \in Ids |-> Undefined]
    /\ chained = TRUE
    /\ edits = 0
    /\ sendFailed = [id \in Ids |-> "no"]
    /\ lostSave = [id \in Ids |-> 0]
    /\ autoDisabled = {}
    /\ attemptIn = NoResponse
    /\ attemptOut = Undefined

\* --------------------------------------------------------------- actions
\* the trigger calls checkServices: getServices() is awaited
Invoke ==
    /\ pc \in {"idle", "responded", "rejected"}
    /\ run < MaxRuns
    /\ run' = run + 1
    /\ pc' = "loading"
    /\ probe' = [id \in Ids |-> IdleProbe]
    /\ failedServices' = <<>>
    /\ recoveredServices' = <<>>
    /\ alertMail' = "none"
    /\ recoverMail' = "none"
    /\ saved' = <<>>
    /\ response' = 0
    /\ calls' = [NoCalls EXCEPT !.load = 1]
    /\ UNCHANGED <<registry, services, loaded, entry, lastListing, prevVerdict, chained>>
    /\ UNCHANGED <<edits, sendFailed, lostSave, autoDisabled, pureVars>>

\* the query resolves; the dispatch loop runs and Promise.all is awaited
LoadOk ==
    /\ pc = "loading"
    /\ loaded' = getServices(registry)
    /\ entry' = getServices(registry)
    /\ services' = dispatchLoop(getServices(registry))
    /\ probe' = [id \in Ids |->
                    IF Dispatches(getServices(registry)[id])
                    THEN StartedProbe ELSE IdleProbe]
    /\ pc' = "probing"
    /\ UNCHANGED <<registry, failedServices, recoveredServices, alertMail,
                   recoverMail, saved, response, run, calls, lastListing,
                   prevVerdict, chained>>
    /\ UNCHANGED <<edits, sendFailed, lostSave, autoDisabled, pureVars>>

\* the query rejects: checkServices rejects at its first await
LoadFail ==
    /\ pc = "loading"
    /\ pc' = "rejected"
    /\ UNCHANGED <<registry, services, probe, failedServices, recoveredServices,
                   alertMail, recoverMail, saved, response, run, loaded, entry,
                   calls, lastListing, prevVerdict, chained>>
    /\ UNCHANGED <<edits, sendFailed, lostSave, autoDisabled, pureVars>>

\* one loop body of a probe up to its break or its backoff await
Attempt(id) ==
    /\ pc = "probing"
    /\ probe[id].pc = "attempt"
    /\ \E o \in Outcomes(services[id].action) :
        LET action == services[id].action
            failed == AttemptFailed(action, o)
            p == probe[id]
        IN  IF Raises(action, o) /\ ~Caught(action, o)
            THEN /\ probe' = [probe EXCEPT ![id] =
                        [p EXCEPT !.pc = "rejected", !.attempts = p.attempts + 1]]
                 /\ UNCHANGED services
            ELSE /\ services' = [services EXCEPT ![id].failed = JsBool(failed)]
                 /\ probe' = [probe EXCEPT ![id] =
                        [p EXCEPT !.pc = IF BreakLoop(failed) THEN "returned" ELSE "backoff",
                                  !.attempts = p.attempts + 1,
                                  !.verdicts = Append(p.verdicts, failed),
                                  !.hung = Hung(action, o),
                                  !.abortedAt = AbortedAt(action, o)]]
    /\ UNCHANGED <<registry, pc, failedServices, recoveredServices, alertMail,
                   recoverMail, saved, response, run, loaded, entry, calls,
                   lastListing, prevVerdict, chained>>
    /\ UNCHANGED <<edits, sendFailed, lostSave, autoDisabled, pureVars>>

\* the backoff timer fires: i++ and the loop condition
Backoff(id) ==
    /\ pc = "probing"
    /\ probe[id].pc = "backoff"
    /\ LET p == probe[id]
       IN  probe' = [probe EXCEPT ![id] =
                [p EXCEPT !.waits = Append(p.waits, BackoffDelay(p.i)),
                          !.hung = FALSE, !.abortedAt = 0,
                          !.i = p.i + 1,
                          !.pc = IF LoopContinues(p.i + 1) THEN "attempt" ELSE "returned"]]
    /\ UNCHANGED <<registry, services, pc, failedServices, recoveredServices,
                   alertMail, recoverMail, saved, response, run, loaded, entry,
                   calls, lastListing, prevVerdict, chained>>
    /\ UNCHANGED <<edits, sendFailed, lostSave, autoDisabled, pureVars>>

\* variant: the first settled probe resumes checkServices
SomeSettled == \E id \in Ids : probe[id].pc \in {"idle", "returned", "rejected"}

\* await Promise.all(checkEndpointPromises)
AllSettled == \A id \in Ids : probe[id].pc \in {"idle", "returned", "rejected"}
AnyRejected == \E id \in Ids : probe[id].pc = "rejected"

\* Promise.all resolves: sendEmails runs its loop and starts both sends
Join ==
    /\ pc = "probing"
    /\ AllSettled
    /\ IF AnyRejected
       THEN /\ pc' = "rejected"
            /\ UNCHANGED <<services, failedServices, recoveredServices, alertMail,
                           recoverMail, entry, calls, lastListing, prevVerdict,
                           sendFailed, lostSave>>
       ELSE LET st == sendEmailsPass(services, run)
            IN  /\ entry' = services
                /\ services' = st.services
                /\ failedServices' = st.failedServices
                /\ recoveredServices' = st.recoveredServices
                /\ alertMail' = MailStart(st.failedServices)
                /\ recoverMail' = MailStart(st.recoveredServices)
                /\ calls' = [calls EXCEPT
                        !.alertSend = IF MailStart(st.failedServices) = "inflight" THEN 1 ELSE 0,
                        !.recoverSend = IF MailStart(st.recoveredServices) = "inflight" THEN 1 ELSE 0]
                /\ lastListing' = [id \in Ids |->
                        IF InList(NameOf(id), st.failedServices) THEN "alert"
                        ELSE IF InList(NameOf(id), st.recoveredServices) THEN "recover"
                        ELSE lastListing[id]]
                /\ prevVerdict' = [id \in Ids |-> services[id].failed]
                /\ sendFailed' = [id \in Ids |->
                        IF \/ InList(NameOf(id), st.failedServices)
                           \/ services[id].enabled /\ ~Truthy(services[id].failed)
                        THEN "no" ELSE sendFailed[id]]
                /\ lostSave' = [id \in Ids |->
                        IF services[id].enabled /\ ~Truthy(services[id].failed)
                        THEN 0 ELSE lostSave[id]]
                /\ pc' = "mailing"
    /\ UNCHANGED <<registry, probe, saved, response, run, loaded, chained>>
    /\ UNCHANGED <<edits, autoDisabled, pureVars>>

\* transporter.sendMail of the alert mail settles
AlertMailDone ==
    /\ pc = "mailing"
    /\ alertMail = "inflight"
    /\ \E ok \in BOOLEAN :
        /\ alertMail' = MailSettled(ok)
        /\ sendFailed' = [id \in Ids |->
                IF ~ok /\ InList(NameOf(id), failedServices)
                THEN "unsaved" ELSE sendFailed[id]]
    /\ UNCHANGED <<registry, services, pc, probe, failedServices, recoveredServices,
                   recoverMail, saved, response, run, loaded, entry, calls,
                   lastListing, prevVerdict, chained>>
    /\ UNCHANGED <<edits, lostSave, autoDisabled, pureVars>>

\* transporter.sendMail of the recovery mail settles
RecoverMailDone ==
    /\ pc = "mailing"
    /\ recoverMail = "inflight"
    /\ \E ok \in BOOLEAN : recoverMail' = MailSettled(ok)
    /\ UNCHANGED <<registry, services, pc, probe, failedServices, recoveredServices,
                   alertMail, saved, response, run, loaded, entry, calls,
                   lastListing, prevVerdict, chained>>
    /\ UNCHANGED <<edits, sendFailed, lostSave, autoDisabled, pureVars>>

\* both sends returned: updateServices strips failed and calls datastore.save
updateServices ==
    /\ pc = "mailing"
    /\ MailReturned(alertMail) /\ MailReturned(recoverMail)
    /\ services' = deleteFailed(services)
    /\ saved' = updateServicesEntities(deleteFailed(services))
    /\ calls' = [calls EXCEPT !.save = calls.save + 1]
    /\ pc' = "saving"
    /\ UNCHANGED <<registry, probe, failedServices, recoveredServices, alertMail,
                   recoverMail, response, run, loaded, entry, lastListing,
                   prevVerdict, chained>>
    /\ UNCHANGED <<edits, sendFailed, lostSave, autoDisabled, pureVars>>

\* datastore.save resolves: res.status(200).send()
SaveOk ==
    /\ pc = "saving"
    /\ registry' = datastoreSave(registry, saved)
    /\ response' = 200
    /\ pc' = "responded"
    /\ UNCHANGED <<services, probe, failedServices, recoveredServices, alertMail,
                   recoverMail, saved, run, loaded, entry, calls, lastListing,
                   prevVerdict, chained>>
    /\ sendFailed' = [id \in Ids |->
            IF sendFailed[id] = "unsaved" /\ InList(NameOf(id), failedServices)
            THEN "saved" ELSE sendFailed[id]]
    /\ autoDisabled' = autoDisabled \cup
            {id \in Ids : loaded[id].enabled /\ ~services[id].enabled}
    /\ lostSave' = [id \in Ids |-> 0]
    /\ UNCHANGED <<edits, pureVars>>

\* variant: the entities are written although the call rejects
SaveFailWrites ==
    /\ pc = "saving"
    /\ pc' = "rejected"
    /\ chained' = FALSE
    /\ registry' = datastoreSave(registry, saved)
    /\ lostSave' = [id \in Ids |->
            IF InList(NameOf(id), failedServices) /\ alertMail = "sent"
            THEN lostSave[id] + 1 ELSE lostSave[id]]
    /\ UNCHANGED <<services, probe, failedServices, recoveredServices,
                   alertMail, recoverMail, saved, response, run, loaded, entry,
                   calls, lastListing, prevVerdict>>
    /\ UNCHANGED <<edits, sendFailed, autoDisabled, pureVars>>

\* datastore.save rejects: nothing catches it, checkServices rejects
SaveFail ==
    /\ pc = "saving"
    /\ pc' = "rejected"
    /\ chained' = FALSE
    /\ UNCHANGED <<registry, services, probe, failedServices, recoveredServices,
                   alertMail, recoverMail, saved, response, run, loaded, entry,
                   calls, lastListing, prevVerdict>>
    /\ lostSave' = [id \in Ids |->
            IF InList(NameOf(id), failedServices) /\ alertMail = "sent"
            THEN lostSave[id] + 1 ELSE lostSave[id]]
    /\ UNCHANGED <<edits, sendFailed, autoDisabled, pureVars>>

\* an operator edits one entity in the Datastore console between two runs
RegistryEdit(id) ==
    /\ pc \in {"responded", "rejected"}
    /\ edits < MaxEdits
    /\ \E a \in Actions, en \in BOOLEAN :
        /\ <<a, en>> # <<registry[id].action, registry[id].enabled>>
        /\ registry' = [registry EXCEPT ![id].action = a, ![id].enabled = en]
        /\ autoDisabled' = IF en THEN autoDisabled \ {id} ELSE autoDisabled
    /\ edits' = edits + 1
    /\ pc' = "idle"
    /\ UNCHANGED <<services, probe, failedServices, recoveredServices, alertMail,
                   recoverMail, saved, response, run, loaded, entry, calls,
                   lastListing, prevVerdict, chained, sendFailed, lostSave, pureVars>>

Next ==
    \/ Invoke
    \/ LoadOk
    \/ LoadFail
    \/ \E id \in Ids : Attempt(id)
    \/ \E id \in Ids : Backoff(id)
    \/ Join
    \/ AlertMailDone
    \/ RecoverMailDone
    \/ updateServices
    \/ SaveOk
    \/ SaveFail
    \/ \E id \in Ids : RegistryEdit(id)

Spec == Init /\ [][Next]_vars

\* ------------------------------------------- one loop body of getEndpoint
\* every status a server can answer with, and the three ways of no response
AllStatuses == 100 .. 599
AttemptInputs ==
    {HttpResponse(st) : st \in AllStatuses}
    \cup {NoResponse}
    \cup {Stalled(f) : f \in BOOLEAN}

InitAttempt ==
    /\ registry = [id \in Ids |-> NewEntity(id, "GET", TRUE)]
    /\ services = getServices(registry)
    /\ pc = "idle"
    /\ probe = [id \in Ids |-> IdleProbe]
    /\ failedServices = <<>>
    /\ recoveredServices = <<>>
    /\ alertMail = "none"
    /\ recoverMail = "none"
    /\ saved = <<>>
    /\ response = 0
    /\ run = 0
    /\ loaded = getServices(registry)
    /\ entry = getServices(registry)
    /\ calls = NoCalls
    /\ lastListing = [id \in Ids |-> "none"]
    /\ prevVerdict = [id \in Ids |-> Undefined]
    /\ chained = TRUE
    /\ edits = 0
    /\ sendFailed = [id \in Ids |-> "no"]
    /\ lostSave = [id \in Ids |-> 0]
    /\ autoDisabled = {}
    /\ attemptIn \in AttemptInputs
    /\ attemptOut = Undefined

\* the try/catch of one loop body run on the outcome of its axios.get
ClassifyAttempt ==
    /\ attemptOut = Undefined
    /\ attemptOut' = JsBool(getEndpointAttempt(attemptIn))
    /\ UNCHANGED <<registry, services, pc, probe, failedServices, recoveredServices,
                   alertMail, recoverMail, saved, response, run, loaded, entry,
                   calls, lastListing, prevVerdict, chained, edits, sendFailed,
                   lostSave, autoDisabled, attemptIn>>

NextAttempt == ClassifyAttempt

SpecAttempt == InitAttempt /\ [][NextAttempt]_vars

TypeOK ==
    /\ pc \in {"idle", "loading", "probing", "mailing", "saving", "responded", "rejected"}
    /\ run \in 0 .. MaxRuns
    /\ response \in {0, 200}
    /\ \A id \in Ids : services[id].failed \in {Undefined, "true", "false"}

\* ===================================================== checked properties
\* sendEmails has run its loop in the current run
PassDone == alertMail # "none"
Listed(id, list) == InList(NameOf(id), list)
Persisted(s) ==
    <<s.triggered, s.alertCount, s.lastAlertDate, s.lastSuccessDate>>
NewFailure(id) ==
    entry[id].enabled /\ Truthy(entry[id].failed) /\ ~entry[id].triggered
OngoingFailure(id) ==
    entry[id].enabled /\ Truthy(entry[id].failed) /\ entry[id].triggered
Recovery(id) ==
    entry[id].enabled /\ entry[id].failed = "false" /\ entry[id].triggered
StillHealthy(id) ==
    entry[id].enabled /\ entry[id].failed = "false" /\ ~entry[id].triggered

\* C1: after the pass of sendEmails, every enabled service that entered it
\* with failed=true and triggered=false has triggered=true, alertCount one
\* higher, lastAlertDate = the run time, and its name in failedServices and
\* not in recoveredServices.
C1_NewFailureAlerts ==
    PassDone =>
        \A id \in Ids : NewFailure(id) =>
            /\ services[id].triggered = TRUE
            /\ services[id].alertCount = entry[id].alertCount + 1
            /\ services[id].lastAlertDate = run
            /\ Listed(id, failedServices)
            /\ ~Listed(id, recoveredServices)

C1_Witness ==
    /\ PassDone
    /\ \E id \in Ids :
        /\ NewFailure(id)
        /\ entry[id].alertCount = 1
        /\ services[id].alertCount = 2
        /\ Listed(id, failedServices)

\* C2: after the pass, every enabled service that entered it with failed=true
\* and triggered=true has triggered, alertCount, lastAlertDate and
\* lastSuccessDate as on entry, and its name in neither list.
C2_OngoingFailureUntouched ==
    PassDone =>
        \A id \in Ids : OngoingFailure(id) =>
            /\ Persisted(services[id]) = Persisted(entry[id])
            /\ ~Listed(id, failedServices)
            /\ ~Listed(id, recoveredServices)

C2_Witness ==
    /\ PassDone
    /\ \E id \in Ids : OngoingFailure(id) /\ entry[id].lastAlertDate < run
    /\ \E id \in Ids : NewFailure(id)

\* C3: after the pass, every enabled service that entered it with failed=false
\* and triggered=true has triggered=false, lastSuccessDate = the run time and
\* its name in recoveredServices; one that entered with failed=false and
\* triggered=false has lastSuccessDate = the run time and is in neither list.
C3_RecoveryAndSuccess ==
    PassDone =>
        \A id \in Ids :
            /\ Recovery(id) =>
                /\ services[id].triggered = FALSE
                /\ services[id].lastSuccessDate = run
                /\ Listed(id, recoveredServices)
            /\ StillHealthy(id) =>
                /\ services[id].lastSuccessDate = run
                /\ ~Listed(id, failedServices)
                /\ ~Listed(id, recoveredServices)

C3_Witness ==
    /\ PassDone
    /\ \E id \in Ids : Recovery(id) /\ Listed(id, recoveredServices)
    /\ \E id \in Ids : StillHealthy(id) /\ entry[id].lastSuccessDate < run

\* the step in which sendEmails runs its loop
PassStep == pc = "probing" /\ pc' = "mailing"

\* C4: as long as every run loaded the snapshot the previous run saved, a
\* service whose verdict is failed in a pass and was failed in the previous
\* pass is not put in failedServices; a service is put in failedServices only
\* if its last listing was none or a recovery, and in recoveredServices only
\* if its last listing was an alert.
C4_AlertsAlternate ==
    [][(PassStep /\ chained) =>
        \A id \in Ids :
            /\ (Truthy(services[id].failed) /\ Truthy(prevVerdict[id]))
                    => ~Listed(id, failedServices')
            /\ Listed(id, failedServices') => lastListing[id] \in {"none", "recover"}
            /\ Listed(id, recoveredServices') => lastListing[id] = "alert"]_vars

C4_Witness ==
    /\ PassDone /\ chained /\ run = MaxRuns
    /\ \E id \in Ids :
        /\ OngoingFailure(id)
        /\ entry[id].lastAlertDate = 1
        /\ entry[id].lastSuccessDate = 0
        /\ ~Listed(id, failedServices)
    /\ \E id \in Ids :
        /\ Listed(id, failedServices)
        /\ services[id].alertCount = 2

\* C5: within a run alertCount equals its loaded value until the pass and,
\* after it, the loaded value plus one exactly if the service was put in
\* failedServices, which happens only if it was loaded with triggered=false;
\* the alertCount held by the registry never decreases and a step raises it
\* by at most one, and only for a service put in failedServices.
C5_AlertCountSteps ==
    /\ [](pc \in {"probing", "mailing", "saving", "responded"} =>
            \A id \in Ids :
                /\ services[id].alertCount = loaded[id].alertCount
                        + (IF PassDone /\ Listed(id, failedServices) THEN 1 ELSE 0)
                /\ (PassDone /\ Listed(id, failedServices)) => ~loaded[id].triggered)
    /\ [][\A id \in Ids :
            /\ registry'[id].alertCount >= registry[id].alertCount
            /\ registry'[id].alertCount <= registry[id].alertCount + 1
            /\ registry'[id].alertCount > registry[id].alertCount
                    => Listed(id, failedServices)]_vars

C5_Witness ==
    /\ pc = "responded"
    /\ \E id \in Ids :
        /\ registry[id].alertCount = 2
        /\ loaded[id].alertCount = 1
        /\ Listed(id, failedServices)
    /\ \E id \in Ids : OngoingFailure(id) /\ registry[id].alertCount = 1

\* C6: a service loaded with enabled=false is never probed in the run, its
\* fields in memory and in the entities handed to datastore.save are those
\* loaded, and its name is in neither list.
C6_DisabledUntouched ==
    pc \in {"probing", "mailing", "saving", "responded"} =>
        \A id \in Ids : ~loaded[id].enabled =>
            /\ probe[id] = IdleProbe
            /\ EntityData(services[id]) = EntityData(loaded[id])
            /\ ~Listed(id, failedServices)
            /\ ~Listed(id, recoveredServices)
            /\ saved # <<>> => saved[id].data = EntityData(loaded[id])
            /\ registry[id] = EntityData(loaded[id])

C6_Witness ==
    /\ pc = "responded"
    /\ \E id \in Ids : ~loaded[id].enabled /\ loaded[id].action \in KnownActions
    /\ \E id \in Ids : Listed(id, failedServices)

\* the failed flag a returned probe left on its service
FinalFailed(id) == IF pc = "probing" THEN services[id].failed ELSE entry[id].failed
ProbeReturned(id) ==
    /\ probe[id].pc = "returned"
    /\ pc \in {"probing", "mailing", "saving", "responded"}
\* attempts 1..k-1 failed and attempt k succeeded
FirstSuccessAt(id, k) ==
    /\ Len(probe[id].verdicts) >= k
    /\ probe[id].verdicts[k] = FALSE
    /\ \A j \in 1 .. k - 1 : probe[id].verdicts[j] = TRUE

\* C7: a probe (GET, PING or SOCKET) whose attempts 1..k-1 failed and whose
\* attempt k succeeded, k <= RETRY_COUNT, returns with failed=false after
\* exactly k attempts, and the waits before attempt k were 1*RETRY_BACKOFF_MS,
\* ..., (k-1)*RETRY_BACKOFF_MS in this order.
C7_RetryUntilSuccess ==
    \A id \in Ids : \A k \in 1 .. RETRY_COUNT :
        FirstSuccessAt(id, k) =>
            /\ probe[id].pc \in {"returned"}
            /\ probe[id].attempts = k
            /\ Len(probe[id].verdicts) = k
            /\ probe[id].waits = [j \in 1 .. k - 1 |-> j * RETRY_BACKOFF_MS]
            /\ ProbeReturned(id) => FinalFailed(id) = "false"

C7_Witness ==
    /\ pc = "probing"
    /\ \E id \in Ids :
        /\ FirstSuccessAt(id, RETRY_COUNT)
        /\ probe[id].pc = "returned"
        /\ probe[id].waits = <<RETRY_BACKOFF_MS, 2 * RETRY_BACKOFF_MS>>
        /\ services[id].failed = "false"
    /\ \E id \in Ids : FirstSuccessAt(id, 2) /\ probe[id].pc = "returned"

\* C8: no probe rejects; a returned probe left failed=true exactly if
\* RETRY_COUNT attempts were made and all of them failed.
C8_ProbeVerdict ==
    \A id \in Ids :
        /\ probe[id].pc # "rejected"
        /\ ProbeReturned(id) =>
            (FinalFailed(id) = "true" <=>
                /\ probe[id].attempts = RETRY_COUNT
                /\ Len(probe[id].verdicts) = RETRY_COUNT
                /\ \A j \in 1 .. RETRY_COUNT : probe[id].verdicts[j] = TRUE)

C8_Witness ==
    /\ pc = "probing"
    /\ \E id \in Ids :
        /\ probe[id].pc = "returned"
        /\ services[id].failed = "true"
        /\ services[id].action = "PING"
        /\ probe[id].attempts = RETRY_COUNT
    /\ \E id \in Ids :
        /\ probe[id].pc = "returned"
        /\ services[id].failed = "false"
        /\ services[id].action = "SOCKET"

\* the invocation is over: it responded or its promise rejected
RunEnded == pc \in {"responded", "rejected"}

\* C9: once datastore.save has been called and has settled, resolved or
\* rejected, the invocation has sent the 200 response.
C9_RespondsAfterSave ==
    (calls.save = 1 /\ pc # "saving") => response = 200

\* C10: in a run that ended after a mail send failed, the other send was
\* started if its list was not empty, no send was called twice, the mutated
\* snapshot was handed to datastore.save, and the 200 response was sent.
C10_SendFailureSwallowed ==
    (RunEnded /\ PassDone /\ (alertMail = "error" \/ recoverMail = "error")) =>
        /\ MailReturned(alertMail) /\ MailReturned(recoverMail)
        /\ (alertMail = "skipped" <=> Len(failedServices) = 0)
        /\ (recoverMail = "skipped" <=> Len(recoveredServices) = 0)
        /\ calls.alertSend <= 1 /\ calls.recoverSend <= 1
        /\ calls.save = 1
        /\ saved = updateServicesEntities(services)
        /\ response = 200

\* checkServices holds a loaded snapshot and has not rejected
InRun == pc \in {"probing", "mailing", "saving", "responded"}
UnknownAction(id) == loaded[id].enabled /\ loaded[id].action \notin KnownActions

\* C11: an enabled service whose action is none of GET, PING, SOCKET has
\* enabled=false after the dispatch loop, is never probed in the run, keeps
\* triggered, alertCount, lastAlertDate and lastSuccessDate, and its name is in
\* neither list; every enabled service with a known action gets its probe.
C11_UnknownActionDisabled ==
    InRun =>
        \A id \in Ids :
            /\ UnknownAction(id) =>
                /\ services[id].enabled = FALSE
                /\ probe[id] = IdleProbe
                /\ Persisted(services[id]) = Persisted(loaded[id])
                /\ ~Listed(id, failedServices)
                /\ ~Listed(id, recoveredServices)
            /\ (loaded[id].enabled /\ loaded[id].action \in KnownActions) =>
                /\ probe[id].pc # "idle"
                /\ PassDone => probe[id].attempts >= 1

C11_Witness ==
    /\ pc = "responded"
    /\ \E id \in Ids : UnknownAction(id) /\ registry[id].enabled = FALSE
    /\ \E id \in Ids : Listed(id, failedServices) /\ probe[id].attempts = RETRY_COUNT

\* C12: one HTTP attempt leaves failed=false for a response with any status
\* below 500 and failed=true for no response (connection error, timeout,
\* cancellation) and for a response with status 500 or more.
C12_HttpClassification ==
    attemptOut # Undefined =>
        /\ (attemptIn.response /\ attemptIn.status < 500) => attemptOut = "false"
        /\ (~attemptIn.response \/ attemptIn.status >= 500) => attemptOut = "true"

C12_Witness ==
    /\ attemptOut = "true"
    /\ attemptIn.response
    /\ attemptIn.status = 500

\* the verdict of the attempt a probe made last
LastVerdict(id) == probe[id].verdicts[Len(probe[id].verdicts)]

\* C13 as stated: a stalled HTTP request is aborted at TIMEOUT_MS after the
\* start of its attempt, not earlier, the attempt counts as failed and the
\* probe is in its backoff wait.
C13_AbortAtTimeout ==
    \A id \in Ids : probe[id].hung =>
        /\ probe[id].abortedAt = TIMEOUT_MS
        /\ LastVerdict(id) = TRUE
        /\ probe[id].pc = "backoff"

\* C13 amended: a stalled HTTP request is aborted no later than TIMEOUT_MS
\* after the start of its attempt, at the 3000 ms timeout of axios when that
\* fires and else at TIMEOUT_MS by the cancel; the attempt counts as failed
\* and the probe is in its backoff wait.
C13_AbortByTimeout ==
    \A id \in Ids : probe[id].hung =>
        /\ probe[id].abortedAt \in {AXIOS_TIMEOUT_MS, TIMEOUT_MS}
        /\ probe[id].abortedAt > 0
        /\ probe[id].abortedAt <= TIMEOUT_MS
        /\ LastVerdict(id) = TRUE
        /\ services[id].failed = "true"
        /\ probe[id].pc = "backoff"

C13_Witness ==
    /\ \E id \in Ids : probe[id].hung /\ probe[id].abortedAt = AXIOS_TIMEOUT_MS
    /\ \E id \in Ids :
        /\ probe[id].hung /\ probe[id].abortedAt = TIMEOUT_MS
        /\ probe[id].attempts = RETRY_COUNT

ProbeRunning(id) == probe[id].pc \in {"attempt", "backoff"}

\* C14: once sendEmails has run its loop no probe is attempting or waiting, and
\* the failed flag it read for a probed service is the verdict of that probe's
\* last attempt; no step changes a persisted field or a list while a probe is
\* attempting or waiting.
C14_Barrier ==
    /\ [](PassDone =>
            \A id \in Ids :
                /\ ~ProbeRunning(id)
                /\ probe[id].pc = "returned" => entry[id].failed = JsBool(LastVerdict(id)))
    /\ [][(\E id \in Ids : ProbeRunning(id)) =>
            /\ \A id \in Ids : Persisted(services'[id]) = Persisted(services[id])
            /\ failedServices' = failedServices
            /\ recoveredServices' = recoveredServices]_vars

C14_Witness ==
    /\ PassDone
    /\ \E id \in Ids : probe[id].pc = "returned" /\ probe[id].attempts = 1
    /\ \E id \in Ids :
        /\ probe[id].pc = "returned" /\ probe[id].attempts = RETRY_COUNT
        /\ entry[id].failed = "true"

\* C15: a probe that returned after n attempts made n-1 backoff waits.
C15_WaitsBetweenAttempts ==
    \A id \in Ids :
        probe[id].pc = "returned" => Len(probe[id].waits) = probe[id].attempts - 1

\* C16 as stated: after the pass the save can start whatever the state of the
\* two sends.
C16_SaveStartsAtOnce ==
    pc = "mailing" => ENABLED updateServices

\* C16 amended: the two sends are started together and run concurrently with
\* each other, and datastore.save is called only after both have returned.
C16_SaveAfterSends ==
    /\ (pc = "mailing" /\ calls.alertSend = 1) => alertMail # "none"
    /\ (pc = "mailing" /\ calls.recoverSend = 1) => recoverMail # "none"
    /\ calls.save >= 1 =>
        /\ alertMail \in {"skipped", "sent", "error"}
        /\ recoverMail \in {"skipped", "sent", "error"}

C16_Witness ==
    /\ pc = "saving"
    /\ alertMail = "sent"
    /\ recoverMail = "sent"

C18_LoadSaveOnce ==
    /\ pc # "idle" => calls.load = 1
    /\ pc = "loading" => \A id \in Ids : probe[id] = IdleProbe
    /\ calls.save <= 1
    /\ calls.save = 1 => PassDone
    /\ (calls.save = 0) <=> (saved = <<>>)
    /\ saved # <<>> =>
        /\ Len(saved) = NumServices
        /\ \A i \in 1 .. Len(saved) :
            /\ saved[i].key = i
            /\ saved[i].data.name = loaded[i].name
            /\ "failed" \notin DOMAIN saved[i].data
    /\ pc = "responded" => \A id \in Ids : "failed" \notin DOMAIN registry[id]

C18_Witness ==
    /\ pc = "responded"
    /\ \E id \in Ids : ~loaded[id].enabled
    /\ \E id \in Ids : entry[id].failed = "true" /\ saved[id].data.triggered

Skipped(id) ==
    /\ ~loaded[id].enabled
    /\ probe[id] = IdleProbe
    /\ EntityData(services[id]) = EntityData(loaded[id])
    /\ ~Listed(id, failedServices)
    /\ ~Listed(id, recoveredServices)

\* C19: a service that a run disabled for its action and saved stays disabled
\* in the registry until it is enabled out of band, whatever its action becomes,
\* and every later run skips it: no probe, no field changed, in neither list.
C19_DisablementPersists ==
    \A id \in autoDisabled :
        /\ registry[id].enabled = FALSE
        /\ pc \in {"probing", "mailing", "saving"} => Skipped(id)
        /\ pc = "responded" => (Skipped(id) \/ UnknownAction(id))

C19_Witness ==
    /\ pc = "responded"
    /\ \E id \in autoDisabled :
        /\ Skipped(id)
        /\ registry[id].action \in KnownActions
    /\ \E id \in Ids : Listed(id, failedServices)

\* C20: the sends have returned when the save is called; after a run that
\* mailed the alert for a service and whose save rejected, the registry holds
\* triggered=false and the loaded alertCount for it, and the next pass in which
\* it is still failed puts it in failedServices again.
C20_LostSaveRealerts ==
    /\ []((pc = "rejected" /\ calls.save = 1 /\ alertMail = "sent") =>
            \A id \in Ids : Listed(id, failedServices) =>
                /\ registry[id].triggered = FALSE
                /\ registry[id].alertCount = entry[id].alertCount
                /\ lostSave[id] >= 1)
    /\ [][PassStep =>
            \A id \in Ids :
                (lostSave[id] >= 1 /\ Truthy(services[id].failed))
                    => Listed(id, failedServices')]_vars

C20_Witness ==
    /\ pc = "rejected"
    /\ \E id \in Ids :
        /\ lostSave[id] = 2
        /\ Listed(id, failedServices)
        /\ registry[id].triggered = FALSE
        /\ registry[id].alertCount = 0
====
